---- MODULE Spec2Model ----
(***************************************************************************)
(* Model of src/corehost/cli/fxr/hostfxr.cpp: the hosting-policy library   *)
(* loader, the execution dispatcher (execute_app, execute_host_command)    *)
(* and the resolution facade (hostfxr_resolve_sdk, ...).                   *)
(*                                                                         *)
(* Spec        : the loader and the dispatcher, one call stepped per       *)
(*               thread, so that calls of different threads interleave.    *)
(* SpecFacade  : the facade operations that fill a buffer, each call one    *)
(*               atomic action.                                            *)
(* SpecCallback: the facade operations that answer through a callback,     *)
(*               each call one atomic action.                              *)
(***************************************************************************)
EXTENDS Integers, Sequences, FiniteSets, TLC

VARIABLES
    dir,          \* the directory impl_dll_dir: is the module there, what it exports
    resident,     \* handles of native modules loaded in the process
    loads,        \* number of successful pal::load_library calls so far
    pc,           \* per thread: position inside execute_app / execute_host_command
    conv,         \* per thread: "app" (execute_app) or "command" (execute_host_command)
    code,         \* per thread: local  int code
    corehost,     \* per thread: local  pal::dll_t corehost
    host_load,    \* per thread: local  corehost_load_fn host_load
    host_unload,  \* per thread: local  corehost_unload_fn host_unload
    host_main,    \* per thread: local  host_main (either convention)
    hist,         \* per thread: calls made to pal, trace and the module in the current call
    ret,          \* per thread: value returned by the last completed call
    ncalls,       \* per thread: number of calls started
    buffer,       \* facade: the caller's buffer (its allocated cells)
    api,          \* facade: record of the last facade call
    first         \* facade: when the last call repeats a call, the repeated call

runVars == <<dir, resident, loads, pc, conv, code, corehost, host_load,
             host_unload, host_main, hist, ret, ncalls>>
facadeVars == <<buffer, api, first>>
vars == <<dir, resident, loads, pc, conv, code, corehost, host_load,
          host_unload, host_main, hist, ret, ncalls, buffer, api, first>>

----------------------------------------------------------------------------
(* Bounds *)

\* calls each thread makes
MaxCalls == 2

\* cells allocated for the caller's buffer
BufLen == 3

\* longest path a collaborator produces
MaxPathLen == 3

Threads == {"t1", "t2"}

----------------------------------------------------------------------------
(* Status codes (error_codes.h) as int32 values *)

Success == 0

InvalidArgFailure == -2147450751

CoreHostLibLoadFailure == -2147450750

CoreHostLibMissingFailure == -2147450749

CoreHostEntryPointFailure == -2147450748

HostApiBufferTooSmall == -2147450728

SdkResolverResolveFailure == -2147450725

----------------------------------------------------------------------------
(* Loader *)

nullptr == "nullptr"

NoHandle == 0

CommonSymbols == {"corehost_load", "corehost_unload"}

Symbols == CommonSymbols \cup {"corehost_main", "corehost_main_with_output_buffer"}

\* values the module's entries may return
LoadRets == {0, 5}

MainRets == {0, 3}

UnloadRets == {0, 7}

\* the symbol of the convention-specific entry
MainSymbol(c) == IF c = "app" THEN "corehost_main" ELSE "corehost_main_with_output_buffer"

\* pal::get_symbol on a module exporting `exports`
get_symbol(exports, name) == IF name \in exports THEN name ELSE nullptr

\* mutant: the existence test always succeeds
library_exists_in_dir_always(d) == TRUE

\* library_exists_in_dir(lib_dir, LIBHOSTPOLICY_NAME, &host_path)
library_exists_in_dir(d) == d.exists

\* mutant: || in place of &&
common_status_either(load_fn, unload_fn) ==
    IF load_fn # nullptr \/ unload_fn # nullptr
      THEN Success ELSE CoreHostEntryPointFailure

\* return value of load_host_library_common
common_status(load_fn, unload_fn) ==
    IF load_fn # nullptr /\ unload_fn # nullptr
      THEN Success ELSE CoreHostEntryPointFailure

\* return value of load_host_library / load_host_library_with_return
main_status(main_fn) ==
    IF main_fn # nullptr THEN Success ELSE CoreHostEntryPointFailure

\* mutant: failure taken to be a positive code
loader_failed_positive(c) == c > Success

\* the dispatcher's test of the loader's status
loader_failed(c) == c # Success

\* mutant: the locals are static, one set for all threads
frame_static(t) == CHOOSE u \in Threads : TRUE

\* the automatic storage holding the locals corehost, host_load, host_unload
\* and host_main of the call running on thread t
frame(t) == t

\* mutant: host_unload is called although host_load failed
after_load_then_unload(r) == IF r = 0 THEN "host_main" ELSE "host_unload"

\* mutant: host_main is called whatever host_load returned
after_load_always_main(r) == "host_main"

\* the branch taken on the value r of  code = host_load(&intf)
after_load(r) == IF r = 0 THEN "host_main" ELSE "unload_library"

\* mutant: host_unload is skipped when host_main fails
after_main_skip_unload(r) == IF r = 0 THEN "host_unload" ELSE "unload_library"

\* host_unload follows host_main whatever host_main returned
after_main(r) == "host_unload"

\* mutant: code = host_unload()
after_unload_code_assigned(c, r) == r

\* the value of code after (void)host_unload() returned r: the result is
\* discarded
after_unload_code(c, r) == c

\* an entry of a call's history: a call of op on handle h with result or
\* argument r
Event(op, h, r) == [op |-> op, h |-> h, r |-> r]

\* the loader returning rc to the dispatcher
LoaderReturn(h, rc) == Event("load_host_library", h, rc)

\* mutant: the flush is left out
pre_call_flush_missing == <<>>

\* trace::flush() between the loader and host_load
pre_call_flush == <<Event("trace::flush", NoHandle, 0)>>

Log(t, e) == hist' = [hist EXCEPT ![t] = Append(@, e)]

Ops(t) == {hist[t][i].op : i \in DOMAIN hist[t]}

----------------------------------------------------------------------------
(* Dispatcher: execute_app / execute_host_command *)

\* entry of execute_app (c = "app") or execute_host_command (c = "command"):
\* the locals are declared and the loader is entered
Call(t, c) ==
    /\ pc[t] \in {"idle", "returned"}
    /\ ncalls[t] < MaxCalls
    /\ ncalls' = [ncalls EXCEPT ![t] = @ + 1]
    /\ conv' = [conv EXCEPT ![t] = c]
    /\ code' = [code EXCEPT ![t] = Success]
    /\ corehost' = [corehost EXCEPT ![frame(t)] = NoHandle]
    /\ host_load' = [host_load EXCEPT ![frame(t)] = nullptr]
    /\ host_unload' = [host_unload EXCEPT ![frame(t)] = nullptr]
    /\ host_main' = [host_main EXCEPT ![frame(t)] = nullptr]
    /\ hist' = [hist EXCEPT ![t] = <<>>]
    /\ pc' = [pc EXCEPT ![t] = "library_exists"]
    /\ UNCHANGED <<dir, resident, loads, ret, buffer, api, first>>

\* load_host_library_common: library_exists_in_dir; when the file is absent
\* the loader returns CoreHostLibMissingFailure
LibraryExists(t) ==
    /\ pc[t] = "library_exists"
    /\ IF library_exists_in_dir(dir)
         THEN /\ Log(t, Event("library_exists_in_dir", NoHandle, 1))
              /\ pc' = [pc EXCEPT ![t] = "load_library"]
              /\ UNCHANGED code
         ELSE /\ hist' = [hist EXCEPT ![t] =
                            @ \o <<Event("library_exists_in_dir", NoHandle, 0),
                                   LoaderReturn(NoHandle, CoreHostLibMissingFailure)>>]
              /\ code' = [code EXCEPT ![t] = CoreHostLibMissingFailure]
              /\ pc' = [pc EXCEPT ![t] = "loader_returned"]
    /\ UNCHANGED <<dir, resident, loads, conv, corehost, host_load, host_unload,
                   host_main, ret, ncalls, buffer, api, first>>

\* load_host_library_common: pal::load_library; the OS loader accepts the
\* binary and hands out a handle, or rejects it and the loader returns
\* CoreHostLibLoadFailure
LoadLibrary(t) ==
    /\ pc[t] = "load_library"
    /\ \E ok \in BOOLEAN :
         IF ok
           THEN /\ loads' = loads + 1
                /\ corehost' = [corehost EXCEPT ![frame(t)] = loads + 1]
                /\ resident' = resident \cup {loads + 1}
                /\ Log(t, Event("pal::load_library", loads + 1, 1))
                /\ pc' = [pc EXCEPT ![t] = "get_load"]
                /\ UNCHANGED code
           ELSE /\ hist' = [hist EXCEPT ![t] =
                              @ \o <<Event("pal::load_library", NoHandle, 0),
                                     Event("trace::info", NoHandle, 0),
                                     LoaderReturn(NoHandle, CoreHostLibLoadFailure)>>]
                /\ code' = [code EXCEPT ![t] = CoreHostLibLoadFailure]
                /\ pc' = [pc EXCEPT ![t] = "loader_returned"]
                /\ UNCHANGED <<loads, corehost, resident>>
    /\ UNCHANGED <<dir, conv, host_load, host_unload, host_main, ret, ncalls,
                   buffer, api, first>>

\* load_host_library_common: *load_fn = pal::get_symbol(*h_host, "corehost_load")
GetLoadSymbol(t) ==
    /\ pc[t] = "get_load"
    /\ host_load' = [host_load EXCEPT ![frame(t)] = get_symbol(dir.exports, "corehost_load")]
    /\ Log(t, Event("pal::get_symbol", corehost[frame(t)], "corehost_load"))
    /\ pc' = [pc EXCEPT ![t] = "get_unload"]
    /\ UNCHANGED <<dir, resident, loads, conv, code, corehost, host_unload,
                   host_main, ret, ncalls, buffer, api, first>>

\* load_host_library_common: *unload_fn = pal::get_symbol(*h_host, "corehost_unload"),
\* its return value, and the caller's  if (rc != StatusCode::Success) return rc;
GetUnloadSymbol(t) ==
    /\ pc[t] = "get_unload"
    /\ LET u == get_symbol(dir.exports, "corehost_unload")
           rc == common_status(host_load[frame(t)], u)
           e == Event("pal::get_symbol", corehost[frame(t)], "corehost_unload")
       IN
         /\ host_unload' = [host_unload EXCEPT ![frame(t)] = u]
         /\ IF rc = Success
              THEN /\ Log(t, e)
                   /\ pc' = [pc EXCEPT ![t] = "get_main"]
                   /\ UNCHANGED code
              ELSE /\ hist' = [hist EXCEPT ![t] = @ \o <<e, LoaderReturn(corehost[frame(t)], rc)>>]
                   /\ code' = [code EXCEPT ![t] = rc]
                   /\ pc' = [pc EXCEPT ![t] = "loader_returned"]
    /\ UNCHANGED <<dir, resident, loads, conv, corehost, host_load, host_main,
                   ret, ncalls, buffer, api, first>>

\* load_host_library / load_host_library_with_return: the convention's symbol
\* and the loader's return value
GetMainSymbol(t) ==
    /\ pc[t] = "get_main"
    /\ LET m == get_symbol(dir.exports, MainSymbol(conv[t])) IN
         /\ host_main' = [host_main EXCEPT ![frame(t)] = m]
         /\ code' = [code EXCEPT ![t] = main_status(m)]
         /\ hist' = [hist EXCEPT ![t] =
                       @ \o <<Event("pal::get_symbol", corehost[frame(t)], MainSymbol(conv[t])),
                              LoaderReturn(corehost[frame(t)], main_status(m))>>]
    /\ pc' = [pc EXCEPT ![t] = "loader_returned"]
    /\ UNCHANGED <<dir, resident, loads, conv, corehost, host_load, host_unload,
                   ret, ncalls, buffer, api, first>>

\* if (code != StatusCode::Success) { trace::error(...); return code; }
\* trace::flush();
CheckLoaded(t) ==
    /\ pc[t] = "loader_returned"
    /\ IF loader_failed(code[t])
         THEN /\ Log(t, Event("trace::error", NoHandle, 0))
              /\ ret' = [ret EXCEPT ![t] = code[t]]
              /\ pc' = [pc EXCEPT ![t] = "returned"]
         ELSE /\ hist' = [hist EXCEPT ![t] = @ \o pre_call_flush]
              /\ pc' = [pc EXCEPT ![t] = "host_load"]
              /\ UNCHANGED ret
    /\ UNCHANGED <<dir, resident, loads, conv, code, corehost, host_load,
                   host_unload, host_main, ncalls, buffer, api, first>>

\* if ((code = host_load(&intf)) == 0)
HostLoad(t) ==
    /\ pc[t] = "host_load"
    /\ \E r \in LoadRets :
         /\ code' = [code EXCEPT ![t] = r]
         /\ Log(t, Event(host_load[frame(t)], corehost[frame(t)], r))
         /\ pc' = [pc EXCEPT ![t] = after_load(r)]
    /\ UNCHANGED <<dir, resident, loads, conv, corehost, host_load, host_unload,
                   host_main, ret, ncalls, buffer, api, first>>

\* code = host_main(argc, argv [, result_buffer, buffer_size, required_buffer_size])
HostMain(t) ==
    /\ pc[t] = "host_main"
    /\ \E r \in MainRets :
         /\ code' = [code EXCEPT ![t] = r]
         /\ Log(t, Event(host_main[frame(t)], corehost[frame(t)], r))
         /\ pc' = [pc EXCEPT ![t] = after_main(r)]
    /\ UNCHANGED <<dir, resident, loads, conv, corehost, host_load, host_unload,
                   host_main, ret, ncalls, buffer, api, first>>

\* (void)host_unload()
HostUnload(t) ==
    /\ pc[t] = "host_unload"
    /\ \E r \in UnloadRets :
         /\ Log(t, Event(host_unload[frame(t)], corehost[frame(t)], r))
         /\ code' = [code EXCEPT ![t] = after_unload_code(code[t], r)]
    /\ pc' = [pc EXCEPT ![t] = "unload_library"]
    /\ UNCHANGED <<dir, resident, loads, conv, corehost, host_load,
                   host_unload, host_main, ret, ncalls, buffer, api, first>>

\* pal::unload_library(corehost); return code;
UnloadLibrary(t) ==
    /\ pc[t] = "unload_library"
    /\ resident' = resident \ {corehost[frame(t)]}
    /\ Log(t, Event("pal::unload_library", corehost[frame(t)], 0))
    /\ ret' = [ret EXCEPT ![t] = code[t]]
    /\ pc' = [pc EXCEPT ![t] = "returned"]
    /\ UNCHANGED <<dir, loads, conv, code, corehost, host_load, host_unload,
                   host_main, ncalls, buffer, api, first>>


----------------------------------------------------------------------------
(* Resolution facade *)

\* pal::char_t values: the characters of paths, the terminator, and what the
\* caller's buffer holds before anything is written to it
PathChars == {"a", "b"}

NUL == "NUL"

Junk == "?"

RECURSIVE SeqsOfLen(_)
SeqsOfLen(n) ==
    IF n = 0 THEN {<<>>}
    ELSE {Append(s, c) : s \in SeqsOfLen(n - 1), c \in PathChars}

\* the non-empty strings a collaborator may produce
Paths == UNION {SeqsOfLen(n) : n \in 1..MaxPathLen}

Min(a, b) == IF a < b THEN a ELSE b

\* std::string::copy(dest, count): copies min(count, size()) characters to
\* dest[0..], returns the number copied
string_copy_len(s, count) == Min(count, Len(s))

string_copy(s, dest, count) ==
    [i \in DOMAIN dest |-> IF i <= string_copy_len(s, count) THEN s[i] ELSE dest[i]]

\* mutant: the terminator is written one cell early
put_nul_early(dest, length) ==
    [i \in DOMAIN dest |-> IF i = length THEN NUL ELSE dest[i]]

\* buffer[length] = 0 (C index length is cell length + 1 here)
put_nul(dest, length) ==
    [i \in DOMAIN dest |-> IF i = length + 1 THEN NUL ELSE dest[i]]

NoCall ==
    [op |-> "none", buffer_null |-> FALSE, buffer_size |-> 0, req_null |-> FALSE,
     before |-> <<>>, found |-> FALSE, result |-> <<>>, ret |-> 0, required |-> 0,
     calls |-> <<>>, flags |-> 0, disallow |-> FALSE, global_json |-> "absent",
     global_json_path |-> <<>>, sdks |-> {}, cb |-> <<>>]

\* no call is being repeated
NoFirst == [call |-> NoCall, buffer |-> <<>>]

\* the argument check of hostfxr_resolve_sdk
resolve_sdk_invalid(buffer_null, buffer_size) ==
    buffer_size < 0 \/ (buffer_size > 0 /\ buffer_null)

\* mutant: one cell more than needed is demanded
resolve_sdk_fits_spare(cli_sdk, buffer_size) == Len(cli_sdk) + 1 < buffer_size

\* mutant: <= in place of <
resolve_sdk_fits_le(cli_sdk, buffer_size) == Len(cli_sdk) <= buffer_size

\* the capacity test  cli_sdk.size() < buffer_size; buffer_size is >= 0 where
\* it is evaluated, so its conversion to size_t keeps its value
resolve_sdk_fits(cli_sdk, buffer_size) == Len(cli_sdk) < buffer_size

\* hostfxr_resolve_sdk(exe_dir, working_dir, buffer, buffer_size); found and
\* cli_sdk are the answer of sdk_resolver_t::resolve_sdk_dotnet_path.  The
\* returned cli_sdk.size() + 1 is far below 2^31 for the paths considered, so
\* its conversion to int32_t keeps its value.
hostfxr_resolve_sdk(buffer_null, buffer_size, found, cli_sdk) ==
    LET entry == <<"trace::setup", "trace::info">>
        rec == [NoCall EXCEPT !.op = "resolve_sdk", !.buffer_null = buffer_null,
                              !.buffer_size = buffer_size, !.before = buffer]
    IN
    IF resolve_sdk_invalid(buffer_null, buffer_size)
      THEN /\ api' = [rec EXCEPT !.ret = -1,
                                 !.calls = entry \o <<"trace::error">>]
           /\ UNCHANGED buffer
      ELSE LET resolve == entry \o <<"sdk_resolver_t::resolve_sdk_dotnet_path">> IN
           IF ~found
             THEN /\ api' = [rec EXCEPT !.ret = 0, !.calls = resolve]
                  /\ UNCHANGED buffer
             ELSE IF resolve_sdk_fits(cli_sdk, buffer_size)
               THEN /\ buffer' = put_nul(string_copy(cli_sdk, buffer, buffer_size - 1),
                                         string_copy_len(cli_sdk, buffer_size - 1))
                    /\ api' = [rec EXCEPT !.found = TRUE, !.result = cli_sdk,
                                          !.ret = Len(cli_sdk) + 1, !.calls = resolve]
               ELSE /\ api' = [rec EXCEPT !.found = TRUE, !.result = cli_sdk,
                                          !.ret = Len(cli_sdk) + 1,
                                          !.calls = resolve \o <<"trace::info">>]
                    /\ UNCHANGED buffer

ResolveSdk ==
    /\ \E buffer_null \in BOOLEAN, buffer_size \in -1..BufLen,
          found \in BOOLEAN, cli_sdk \in Paths :
         hostfxr_resolve_sdk(buffer_null, buffer_size, found, cli_sdk)
    /\ first' = NoFirst
    /\ UNCHANGED runVars

\* the second call of the two-call idiom: after a call that returned a
\* positive value, the caller calls again with the same exe_dir and
\* working_dir (so the resolver answers the same) and a buffer of at least
\* the returned number of cells
ResolveSdkAgain ==
    /\ api.op = "resolve_sdk"
    /\ api.ret > 0
    /\ \E buffer_size \in api.ret..BufLen :
         hostfxr_resolve_sdk(FALSE, buffer_size, api.found, api.result)
    /\ first' = [call |-> api, buffer |-> buffer]
    /\ UNCHANGED runVars

\* hostfxr_resolve_sdk2_flags_t::disallow_prerelease is bit 0 of flags
disallow_prerelease(flags) == flags % 2 = 1

Flags == {0, 1, 2, 3}

\* what the working directory holds: no global.json, one that does not
\* constrain the resolution, or one that does
GlobalJsonStates == {"absent", "inert", "used"}

\* the global_json_path sdk_resolver_t::resolve_sdk_dotnet_path reports: the
\* path of global.json when it was used, empty otherwise
resolver_global_json_path(state, path) == IF state = "used" THEN path ELSE <<>>

\* one invocation of the hostfxr_resolve_sdk2 result callback
KeyValue(key, value) == [key |-> key, value |-> value]

\* mutant: resolved_sdk_dir is delivered on failure too, with an empty value
sdk2_callbacks_always_dir(success, resolved_sdk_dir, global_json_path) ==
    <<KeyValue("resolved_sdk_dir", resolved_sdk_dir)>>
    \o (IF global_json_path # <<>>
          THEN <<KeyValue("global_json_path", global_json_path)>> ELSE <<>>)

\* mutant: global_json_path is delivered only when resolution succeeded
sdk2_callbacks_json_on_success(success, resolved_sdk_dir, global_json_path) ==
    IF success
      THEN <<KeyValue("resolved_sdk_dir", resolved_sdk_dir)>>
           \o (IF global_json_path # <<>>
                 THEN <<KeyValue("global_json_path", global_json_path)>> ELSE <<>>)
      ELSE <<>>

\* mutant: the two deliveries are exchanged
sdk2_callbacks_json_first(success, resolved_sdk_dir, global_json_path) ==
    (IF global_json_path # <<>>
       THEN <<KeyValue("global_json_path", global_json_path)>> ELSE <<>>)
    \o (IF success THEN <<KeyValue("resolved_sdk_dir", resolved_sdk_dir)>> ELSE <<>>)

\* the invocations of result made by hostfxr_resolve_sdk2, in order
sdk2_callbacks(success, resolved_sdk_dir, global_json_path) ==
    (IF success THEN <<KeyValue("resolved_sdk_dir", resolved_sdk_dir)>> ELSE <<>>)
    \o (IF global_json_path # <<>>
          THEN <<KeyValue("global_json_path", global_json_path)>> ELSE <<>>)

\* the value returned by hostfxr_resolve_sdk2
sdk2_status(success) == IF success THEN Success ELSE SdkResolverResolveFailure

\* hostfxr_resolve_sdk2(exe_dir, working_dir, flags, result); success and
\* sdk_dir are the resolver's answer, sdk_dir being left empty on failure
hostfxr_resolve_sdk2(flags, success, sdk_dir, state, json_path) ==
    LET resolved_sdk_dir == IF success THEN sdk_dir ELSE <<>>
        global_json_path == resolver_global_json_path(state, json_path)
    IN
    /\ api' = [NoCall EXCEPT
                 !.op = "resolve_sdk2", !.before = buffer, !.flags = flags,
                 !.disallow = disallow_prerelease(flags),
                 !.found = success, !.result = resolved_sdk_dir,
                 !.global_json = state, !.global_json_path = global_json_path,
                 !.calls = <<"trace::setup", "trace::info",
                             "sdk_resolver_t::resolve_sdk_dotnet_path">>,
                 !.cb = sdk2_callbacks(success, resolved_sdk_dir, global_json_path),
                 !.ret = sdk2_status(success)]
    /\ UNCHANGED buffer

ResolveSdk2 ==
    /\ \E flags \in Flags, success \in BOOLEAN, state \in GlobalJsonStates :
         \E sdk_dir \in (IF success THEN Paths ELSE {<<>>}),
            json_path \in (IF state = "absent" THEN {<<>>} ELSE Paths) :
           hostfxr_resolve_sdk2(flags, success, sdk_dir, state, json_path)
    /\ first' = NoFirst
    /\ UNCHANGED runVars

\* the version directories that may be found under exe_dir/sdk
SdkDirNames == {"1.0.0", "2.1.0", "3.0.0-preview", "3.0.0"}

\* fx_ver_t::parse of a directory name
fx_ver(name) ==
    CASE name = "1.0.0" -> [major |-> 1, minor |-> 0, patch |-> 0, pre |-> ""]
      [] name = "2.1.0" -> [major |-> 2, minor |-> 1, patch |-> 0, pre |-> ""]
      [] name = "3.0.0-preview" -> [major |-> 3, minor |-> 0, patch |-> 0, pre |-> "-preview"]
      [] name = "3.0.0" -> [major |-> 3, minor |-> 0, patch |-> 0, pre |-> ""]

\* fx_ver_t operator<: major, minor, patch, then a prerelease before its release
fx_ver_less(a, b) ==
    \/ a.major < b.major
    \/ a.major = b.major /\ a.minor < b.minor
    \/ a.major = b.major /\ a.minor = b.minor /\ a.patch < b.patch
    \/ a.major = b.major /\ a.minor = b.minor /\ a.patch = b.patch
         /\ a.pre # "" /\ b.pre = ""

\* the sdk_info of a version directory
sdk_info(name) == [version |-> fx_ver(name), full_path |-> "sdk/" \o name]

\* sdk_info::get_all_sdk_infos: the directories found, ascending by version
RECURSIVE get_all_sdk_infos(_)
get_all_sdk_infos(names) ==
    IF names = {} THEN <<>>
    ELSE LET least == CHOOSE n \in names :
                        \A m \in names \ {n} : fx_ver_less(fx_ver(n), fx_ver(m))
         IN <<sdk_info(least)>> \o get_all_sdk_infos(names \ {least})

\* one invocation of the hostfxr_get_available_sdks result callback
SdkList(count, is_null, dirs) ==
    [sdk_count |-> count, sdk_dirs_null |-> is_null, sdk_dirs |-> dirs]

\* mutant: nothing is delivered when no SDK is found
sdks_callbacks_none_when_empty(sdk_infos) ==
    IF sdk_infos = <<>>
      THEN <<>>
      ELSE <<SdkList(Len(sdk_infos), FALSE,
                     [i \in DOMAIN sdk_infos |-> sdk_infos[i].full_path])>>

\* mutant: the copy loop stops one entry early
sdks_callbacks_short(sdk_infos) ==
    IF sdk_infos = <<>>
      THEN <<SdkList(0, TRUE, <<>>)>>
      ELSE <<SdkList(Len(sdk_infos), FALSE,
                     [i \in 1..(Len(sdk_infos) - 1) |-> sdk_infos[i].full_path])>>

\* the invocations of result made by hostfxr_get_available_sdks:
\* result(0, nullptr), or result(sdk_dirs.size(), &sdk_dirs[0]) with the
\* full_path of every sdk_info pushed in order
sdks_callbacks(sdk_infos) ==
    IF sdk_infos = <<>>
      THEN <<SdkList(0, TRUE, <<>>)>>
      ELSE <<SdkList(Len(sdk_infos), FALSE,
                     [i \in DOMAIN sdk_infos |-> sdk_infos[i].full_path])>>

\* hostfxr_get_available_sdks(exe_dir, result) on a directory holding the
\* version directories `names`
hostfxr_get_available_sdks(names) ==
    /\ api' = [NoCall EXCEPT
                 !.op = "get_available_sdks", !.before = buffer, !.sdks = names,
                 !.calls = <<"trace::setup", "trace::info",
                             "sdk_info::get_all_sdk_infos">>,
                 !.cb = sdks_callbacks(get_all_sdk_infos(names)),
                 !.ret = Success]
    /\ UNCHANGED buffer

GetAvailableSdks ==
    /\ \E names \in SUBSET SdkDirNames : hostfxr_get_available_sdks(names)
    /\ first' = NoFirst
    /\ UNCHANGED runVars

\* mutant: required_buffer_size is not checked
native_search_invalid_no_req(buffer_null, buffer_size, req_null) ==
    buffer_size < 0 \/ (buffer_size > 0 /\ buffer_null)

\* the argument check of hostfxr_get_native_search_directories
native_search_invalid(buffer_null, buffer_size, req_null) ==
    buffer_size < 0 \/ (buffer_size > 0 /\ buffer_null) \/ req_null

\* fx_muxer_t::execute("get-native-search-directories", ...): the muxer fails
\* with rc, or produces the path list `result` and hands it over by the
\* buffer negotiation protocol
muxer_execute(rec, buffer_size, rc, result) ==
    LET calls == rec.calls \o <<"fx_muxer_t::execute">> IN
    IF rc # Success
      THEN /\ api' = [rec EXCEPT !.ret = rc, !.calls = calls]
           /\ UNCHANGED buffer
      ELSE IF Len(result) < buffer_size
        THEN /\ buffer' = put_nul(string_copy(result, buffer, Len(result)), Len(result))
             /\ api' = [rec EXCEPT !.found = TRUE, !.result = result,
                                   !.ret = Success, !.calls = calls]
        ELSE /\ api' = [rec EXCEPT !.found = TRUE, !.result = result,
                                   !.ret = HostApiBufferTooSmall,
                                   !.required = Len(result) + 1, !.calls = calls]
             /\ UNCHANGED buffer

\* hostfxr_get_native_search_directories(argc, argv, buffer, buffer_size,
\* required_buffer_size)
hostfxr_get_native_search_directories(buffer_null, buffer_size, req_null, rc, result) ==
    LET entry == <<"trace::setup", "trace::info">>
        rec == [NoCall EXCEPT !.op = "get_native_search_directories",
                              !.buffer_null = buffer_null,
                              !.buffer_size = buffer_size,
                              !.req_null = req_null, !.before = buffer]
    IN
    IF native_search_invalid(buffer_null, buffer_size, req_null)
      THEN /\ api' = [rec EXCEPT !.ret = InvalidArgFailure,
                                 !.calls = entry \o <<"trace::error">>]
           /\ UNCHANGED buffer
      ELSE muxer_execute([rec EXCEPT !.calls = entry \o <<"host_startup_info_t::parse">>],
                         buffer_size, rc, result)

GetNativeSearchDirectories ==
    /\ \E buffer_null \in BOOLEAN, buffer_size \in -1..BufLen, req_null \in BOOLEAN,
          rc \in {Success, CoreHostLibMissingFailure}, result \in Paths :
         hostfxr_get_native_search_directories(buffer_null, buffer_size, req_null,
                                               rc, result)
    /\ first' = NoFirst
    /\ UNCHANGED runVars

----------------------------------------------------------------------------

InitRun ==
    /\ resident = {}
    /\ loads = 0
    /\ pc = [t \in Threads |-> "idle"]
    /\ conv = [t \in Threads |-> "app"]
    /\ code = [t \in Threads |-> Success]
    /\ corehost = [t \in Threads |-> NoHandle]
    /\ host_load = [t \in Threads |-> nullptr]
    /\ host_unload = [t \in Threads |-> nullptr]
    /\ host_main = [t \in Threads |-> nullptr]
    /\ hist = [t \in Threads |-> <<>>]
    /\ ret = [t \in Threads |-> Success]
    /\ ncalls = [t \in Threads |-> 0]

Init ==
    /\ dir \in [exists : BOOLEAN, exports : SUBSET Symbols]
    /\ InitRun
    /\ buffer = <<>>
    /\ api = NoCall
    /\ first = NoFirst

InitFacade ==
    /\ dir = [exists |-> FALSE, exports |-> {}]
    /\ InitRun
    /\ buffer = [i \in 1..BufLen |-> Junk]
    /\ api = NoCall
    /\ first = NoFirst

Next ==
    \E t \in Threads :
        \/ \E c \in {"app", "command"} : Call(t, c)
        \/ LibraryExists(t)
        \/ LoadLibrary(t)
        \/ GetLoadSymbol(t)
        \/ GetUnloadSymbol(t)
        \/ GetMainSymbol(t)
        \/ CheckLoaded(t)
        \/ HostLoad(t)
        \/ HostMain(t)
        \/ HostUnload(t)
        \/ UnloadLibrary(t)

Spec == Init /\ [][Next]_vars

NextFacade ==
    \/ ResolveSdk
    \/ ResolveSdkAgain
    \/ GetNativeSearchDirectories

SpecFacade == InitFacade /\ [][NextFacade]_vars

\* the operations that answer through a callback
NextCallback ==
    \/ ResolveSdk2
    \/ GetAvailableSdks

SpecCallback == InitFacade /\ [][NextCallback]_vars

----------------------------------------------------------------------------
(* Properties of the loader and the dispatcher (Spec) *)

EntryOps == Symbols

MainOps == {"corehost_main", "corehost_main_with_output_buffer"}

Has(t, op) == \E i \in DOMAIN hist[t] : hist[t][i].op = op

Count(t, op) == Cardinality({i \in DOMAIN hist[t] : hist[t][i].op = op})

\* host_load was invoked in thread t's current call and returned 0 / non-zero
LoadReturnedZero(t) ==
    \E i \in DOMAIN hist[t] : hist[t][i].op = "corehost_load" /\ hist[t][i].r = 0

LoadReturnedNonZero(t) ==
    \E i \in DOMAIN hist[t] : hist[t][i].op = "corehost_load" /\ hist[t][i].r # 0

\* the loader returned rc in thread t's current call
LoaderReturned(t, rc) ==
    \E i \in DOMAIN hist[t] : hist[t][i].op = "load_host_library" /\ hist[t][i].r = rc

\* handles pal::load_library handed out in thread t's current call
LoadedBy(t) ==
    {hist[t][i].h : i \in {j \in DOMAIN hist[t] :
                             hist[t][j].op = "pal::load_library" /\ hist[t][j].h # NoHandle}}

\* pal::unload_library was called on h in thread t's current call
NativelyUnloaded(t, h) ==
    \E i \in DOMAIN hist[t] : hist[t][i].op = "pal::unload_library" /\ hist[t][i].h = h

\* C1: when the loader succeeds and the module's load entry returns non-zero,
\* the module's main entry is never invoked in that call, and by the time the
\* call returns pal::unload_library has been called on the handle, which is
\* no longer resident.
C1_LoadFailureSkipsMainAndUnloadsLibrary ==
    \A t \in Threads :
        LoadReturnedNonZero(t) =>
            /\ LoaderReturned(t, Success)
            /\ \A m \in MainOps : ~Has(t, m)
            /\ pc[t] = "returned" =>
                 /\ NativelyUnloaded(t, corehost[t])
                 /\ LoadedBy(t) \cap resident = {}

C1_Witness ==
    \E t \in Threads :
        /\ pc[t] = "returned"
        /\ LoadReturnedNonZero(t)
        /\ NativelyUnloaded(t, corehost[t])

\* C2: when a call returns, no native module that the call loaded into the
\* process is still resident, whatever the outcome of the call.
C2_NoModuleResidentAfterReturn ==
    \A t \in Threads :
        pc[t] = "returned" => LoadedBy(t) \cap resident = {}

\* C3: the module's unload entry is invoked exactly once if the load entry was
\* invoked and returned 0, whatever main returns, and not at all if load
\* returned non-zero or was never invoked.
C3_UnloadEntryOnceIffLoadSucceeded ==
    \A t \in Threads :
        /\ Count(t, "corehost_unload") <= 1
        /\ Has(t, "corehost_unload") => LoadReturnedZero(t)
        /\ pc[t] = "returned" =>
             Count(t, "corehost_unload") = (IF LoadReturnedZero(t) THEN 1 ELSE 0)

C3_Witness ==
    \E t \in Threads :
        /\ pc[t] = "returned"
        /\ LoadReturnedZero(t)
        /\ \E i \in DOMAIN hist[t] : hist[t][i].op \in MainOps /\ hist[t][i].r # 0
        /\ Count(t, "corehost_unload") = 1

\* C4: if the loader returns a status other than Success, none of the module's
\* load, main or unload entries is invoked in that call, and the call returns
\* exactly the loader's status.
C4_LoaderFailureShortCircuits ==
    \A t \in Threads :
        \A rc \in {CoreHostLibMissingFailure, CoreHostLibLoadFailure,
                   CoreHostEntryPointFailure} :
            LoaderReturned(t, rc) =>
                /\ \A e \in EntryOps : ~Has(t, e)
                /\ pc[t] \in {"loader_returned", "returned"}
                /\ pc[t] = "returned" => ret[t] = rc

C4_Witness ==
    \E t \in Threads :
        /\ pc[t] = "returned"
        /\ LoaderReturned(t, CoreHostEntryPointFailure)
        /\ {"corehost_load", "corehost_unload"} \subseteq dir.exports

\* C5: when the hosting-policy module file is not in the directory, the loader
\* returns CoreHostLibMissingFailure and calls neither pal::load_library nor
\* pal::get_symbol.
C5_MissingLibraryNoLoadNoLookup ==
    \A t \in Threads :
        ~dir.exists =>
            /\ ~Has(t, "pal::load_library")
            /\ ~Has(t, "pal::get_symbol")
            /\ Has(t, "load_host_library") => LoaderReturned(t, CoreHostLibMissingFailure)
            /\ pc[t] \notin {"idle", "library_exists"} =>
                 LoaderReturned(t, CoreHostLibMissingFailure)

C5_Witness ==
    \E t \in Threads :
        /\ ~dir.exists
        /\ pc[t] = "loader_returned"
        /\ LoaderReturned(t, CoreHostLibMissingFailure)

\* C6: after a successful OS load the loader returns Success if and only if
\* load, unload and the convention's main symbol all resolve, and
\* CoreHostEntryPointFailure otherwise; when load or unload is missing the
\* failure is returned without the convention's symbol being looked up.
C6_EntryPointResolution ==
    \A t \in Threads :
        LoadedBy(t) # {} =>
            /\ \A i \in DOMAIN hist[t] :
                 hist[t][i].op = "load_host_library" =>
                     hist[t][i].r =
                         (IF CommonSymbols \cup {MainSymbol(conv[t])} \subseteq dir.exports
                            THEN Success ELSE CoreHostEntryPointFailure)
            /\ ~(CommonSymbols \subseteq dir.exports) =>
                 /\ \A i \in DOMAIN hist[t] :
                      hist[t][i].op = "pal::get_symbol" => hist[t][i].r \in CommonSymbols
                 /\ pc[t] # "get_main"
            /\ pc[t] \in {"loader_returned", "returned"} => Has(t, "load_host_library")

C6_Witness ==
    \E t \in Threads :
        /\ LoadedBy(t) # {}
        /\ "corehost_load" \in dir.exports
        /\ "corehost_unload" \notin dir.exports
        /\ LoaderReturned(t, CoreHostEntryPointFailure)

\* C7: in every call in which the module's load entry is invoked, trace::flush
\* is called after the loader has returned Success and before load is
\* invoked, so no entry of the module runs before the flush.
C7_FlushBeforeModuleRuns ==
    \A t \in Threads :
        \A i \in DOMAIN hist[t] :
            hist[t][i].op \in EntryOps =>
                \E j \in 1..(i - 1) :
                    /\ hist[t][j].op = "trace::flush"
                    /\ \E k \in 1..(j - 1) :
                         /\ hist[t][k].op = "load_host_library"
                         /\ hist[t][k].r = Success

C7_Witness ==
    \E t \in Threads :
        /\ Has(t, "corehost_load")
        /\ Has(t, "trace::flush")

----------------------------------------------------------------------------
(* Properties of the resolution facade (SpecFacade) *)

Called(name) == \E i \in DOMAIN api.calls : api.calls[i] = name

\* the last call's arguments are invalid
SizeArgsInvalid == api.buffer_size < 0 \/ (api.buffer_size > 0 /\ api.buffer_null)

\* C8: a resolve_sdk or get_native_search_directories call with
\* buffer_size < 0, or buffer_size > 0 and a null buffer, or (the latter
\* only) a null required-size output, returns the invalid-argument code (a
\* negative value, resp. InvalidArgFailure) without invoking the SDK resolver
\* or the muxer and without writing to the buffer.
C8_InvalidArgumentsRejectedFirst ==
    /\ (api.op = "resolve_sdk" /\ SizeArgsInvalid) =>
           /\ api.ret < 0
           /\ ~Called("sdk_resolver_t::resolve_sdk_dotnet_path")
           /\ ~Called("fx_muxer_t::execute")
           /\ buffer = api.before
    /\ (api.op = "get_native_search_directories" /\ (SizeArgsInvalid \/ api.req_null)) =>
           /\ api.ret = InvalidArgFailure
           /\ ~Called("sdk_resolver_t::resolve_sdk_dotnet_path")
           /\ ~Called("fx_muxer_t::execute")
           /\ ~Called("host_startup_info_t::parse")
           /\ buffer = api.before
           /\ api.required = 0

C8_Witness ==
    /\ api.op = "get_native_search_directories"
    /\ api.req_null
    /\ ~SizeArgsInvalid
    /\ api.buffer_size > 0
    /\ api.ret = InvalidArgFailure

\* C9: after a resolve_sdk call that is rejected, finds no SDK, or whose
\* resolved path does not fit (length + 1 > buffer_size), every cell of the
\* caller's buffer holds the value it held before the call.
C9_BufferUntouchedUnlessPathFits ==
    (/\ api.op = "resolve_sdk"
     /\ \/ SizeArgsInvalid
        \/ ~api.found
        \/ Len(api.result) + 1 > api.buffer_size)
    => buffer = api.before

C9_Witness ==
    /\ api.op = "resolve_sdk"
    /\ api.found
    /\ ~api.buffer_null
    /\ api.buffer_size > 0
    /\ Len(api.result) = api.buffer_size
    /\ buffer = api.before

\* C10: resolve_sdk returns a negative value exactly on invalid arguments, 0
\* exactly when the resolver finds no SDK, and otherwise the positive value
\* length + 1; the buffer is written exactly when that value is
\* <= buffer_size, and then holds the path, the terminator, and after the
\* terminator what it held before.
C10_ResolveSdkResult ==
    api.op = "resolve_sdk" =>
        /\ api.ret < 0 <=> SizeArgsInvalid
        /\ api.ret = 0 <=> (Called("sdk_resolver_t::resolve_sdk_dotnet_path") /\ ~api.found)
        /\ (~SizeArgsInvalid /\ api.found) =>
               (api.ret = Len(api.result) + 1 /\ api.ret > 0)
        /\ IF api.ret > 0 /\ api.ret <= api.buffer_size
             THEN /\ \A i \in 1..Len(api.result) : buffer[i] = api.result[i]
                  /\ buffer[Len(api.result) + 1] = NUL
                  /\ \A i \in (Len(api.result) + 2)..Len(buffer) : buffer[i] = api.before[i]
             ELSE buffer = api.before

C10_Witness ==
    /\ api.op = "resolve_sdk"
    /\ api.ret = 2
    /\ api.buffer_size = 3
    /\ api.before[3] = NUL
    /\ buffer[3] = NUL
    /\ buffer[2] = NUL

\* the C string a buffer holds: the cells before the first terminator
CString(buf) ==
    LET nuls == {i \in DOMAIN buf : buf[i] = NUL}
        end == IF nuls = {} THEN Len(buf) + 1
               ELSE CHOOSE i \in nuls : \A j \in nuls : i <= j
    IN SubSeq(buf, 1, end - 1)

\* C11: when a resolve_sdk call returned a positive value r, a second call
\* with the same inputs and buffer_size r, or larger, returns r again and
\* leaves in the buffer the complete resolved path, null-terminated: the
\* same string whatever the size, and the one the first call wrote if it
\* wrote any.
C11_TwoCallIdiom ==
    first.call.op = "resolve_sdk" =>
        /\ api.ret = first.call.ret
        /\ api.buffer_size >= first.call.ret
        /\ CString(buffer) = first.call.result
        /\ buffer[first.call.ret] = NUL
        /\ first.call.ret <= first.call.buffer_size =>
               CString(first.buffer) = CString(buffer)

C11_Witness ==
    /\ first.call.op = "resolve_sdk"
    /\ first.call.buffer_size < first.call.ret
    /\ api.buffer_size = first.call.ret
    /\ Len(api.result) = 2
    /\ CString(buffer) = api.result

\* the keys the result callback was invoked with, in order
CbKeys == [i \in DOMAIN api.cb |-> api.cb[i].key]

Delivered(key) == \E i \in DOMAIN api.cb : api.cb[i].key = key

C13_GlobalJsonIffUsed ==
    api.op = "resolve_sdk2" =>
        /\ Delivered("global_json_path") <=> api.global_json_path # <<>>
        /\ Delivered("global_json_path") <=> api.global_json = "used"
        /\ \A i \in DOMAIN api.cb :
             api.cb[i].key = "global_json_path" => api.cb[i].value = api.global_json_path

C13_Witness ==
    /\ api.op = "resolve_sdk2"
    /\ ~api.found
    /\ api.global_json = "used"
    /\ Delivered("global_json_path")

C14_SdkListDeliveredOnce ==
    api.op = "get_available_sdks" =>
        /\ Len(api.cb) = 1
        /\ api.ret = Success
        /\ api.sdks = {} =>
               (api.cb[1].sdk_count = 0 /\ api.cb[1].sdk_dirs_null)
        /\ api.sdks # {} =>
               /\ ~api.cb[1].sdk_dirs_null
               /\ api.cb[1].sdk_count = Cardinality(api.sdks)

C14_Witness ==
    /\ api.op = "get_available_sdks"
    /\ api.sdks = {}
    /\ Len(api.cb) = 1
    /\ api.cb[1].sdk_dirs_null

\* the index at which the path of version directory name was delivered
Places(name) ==
    {i \in DOMAIN api.cb[1].sdk_dirs : api.cb[1].sdk_dirs[i] = "sdk/" \o name}

\* C15: the list get_available_sdks delivers holds the path of every SDK found
\* exactly once and nothing else, ascending by version; directories 2.1.0,
\* 3.0.0-preview and 1.0.0 are delivered as 1.0.0, 2.1.0, 3.0.0-preview.
C15_SdkListCompleteAndAscending ==
    (api.op = "get_available_sdks" /\ Len(api.cb) = 1) =>
        /\ Len(api.cb[1].sdk_dirs) = Cardinality(api.sdks)
        /\ \A n \in api.sdks : Cardinality(Places(n)) = 1
        /\ \A n, m \in api.sdks :
             fx_ver_less(fx_ver(n), fx_ver(m)) =>
                 \A i \in Places(n), j \in Places(m) : i < j
        /\ api.sdks = {"2.1.0", "3.0.0-preview", "1.0.0"} =>
               api.cb[1].sdk_dirs = <<"sdk/1.0.0", "sdk/2.1.0", "sdk/3.0.0-preview">>
        /\ {"3.0.0-preview", "3.0.0"} \subseteq api.sdks =>
               \A i \in Places("3.0.0-preview"), j \in Places("3.0.0") : i < j

C15_Witness ==
    /\ api.op = "get_available_sdks"
    /\ api.sdks = {"2.1.0", "3.0.0-preview", "1.0.0"}
    /\ api.cb[1].sdk_dirs = <<"sdk/1.0.0", "sdk/2.1.0", "sdk/3.0.0-preview">>

----------------------------------------------------------------------------
(* Further properties of the dispatcher (Spec) *)

\* positions in thread t's current call at which op was called
At(t, ops) == {i \in DOMAIN hist[t] : hist[t][i].op \in ops}

\* the result of the one call of an op of ops in thread t's current call
ResultOf(t, ops) == hist[t][CHOOSE i \in At(t, ops) : TRUE].r

\* the operations that go through a module handle
HandleOps == EntryOps \cup {"pal::get_symbol", "pal::unload_library"}

\* the status a call of thread t returns when it runs alone on this directory
\* and the OS loader and the module answer as they answered this call
SoloStatus(t) ==
    IF ~dir.exists THEN CoreHostLibMissingFailure
    ELSE IF \E i \in DOMAIN hist[t] :
              hist[t][i].op = "pal::load_library" /\ hist[t][i].h = NoHandle
      THEN CoreHostLibLoadFailure
    ELSE IF ~(CommonSymbols \cup {MainSymbol(conv[t])} \subseteq dir.exports)
      THEN CoreHostEntryPointFailure
    ELSE IF LoadReturnedNonZero(t) THEN ResultOf(t, {"corehost_load"})
    ELSE ResultOf(t, MainOps)

\* C16: of two calls running concurrently on different threads against the
\* same directory, under any interleaving, each looks up symbols, invokes
\* entries and natively unloads only through the handle it obtained itself,
\* through the entry pointers it resolved itself, and returns the status it
\* would return running alone with the same answers.
C16_ConcurrentCallsIndependent ==
    \A t \in Threads :
        /\ \A i \in At(t, HandleOps) : hist[t][i].h \in LoadedBy(t)
        /\ \A u \in Threads \ {t} : LoadedBy(t) \cap LoadedBy(u) = {}
        /\ \A i \in DOMAIN hist[t] : hist[t][i].op # nullptr
        /\ pc[t] = "returned" => ret[t] = SoloStatus(t)

C16_Witness ==
    \E t \in Threads : \E u \in Threads \ {t} :
        /\ pc[t] = "returned"
        /\ ret[t] = 3
        /\ pc[u] = "unload_library"
        /\ code[u] = 5
        /\ LoadedBy(t) # {}
        /\ LoadedBy(u) # {}
        /\ \A h \in LoadedBy(u) : \A g \in LoadedBy(t) : h < g

\* C17: within one call the module's entries are invoked in the order load,
\* main, unload, each at most once, main and unload only after load returned
\* 0 and unload only after main returned; pal::unload_library is called at
\* most once, after all of them, and no entry is invoked after it.
C17_EntryOrder ==
    \A t \in Threads :
        /\ \A e \in EntryOps \cup {"pal::unload_library"} : Count(t, e) <= 1
        /\ Cardinality(At(t, MainOps)) <= 1
        /\ \A i \in At(t, MainOps \cup {"corehost_unload"}) :
             \E j \in 1..(i - 1) :
                 hist[t][j].op = "corehost_load" /\ hist[t][j].r = 0
        /\ \A i \in At(t, {"corehost_unload"}) :
             \E j \in 1..(i - 1) : hist[t][j].op \in MainOps
        /\ \A u \in At(t, {"pal::unload_library"}) :
             \A i \in At(t, EntryOps) : i < u

C17_Witness ==
    \E t \in Threads :
        /\ At(t, {"corehost_load"}) # {}
        /\ At(t, MainOps) # {}
        /\ At(t, {"corehost_unload"}) # {}
        /\ At(t, {"pal::unload_library"}) # {}

\* C18: the status a call returns is the loader's status if the loader failed;
\* otherwise the value the load entry returned if that is non-zero; otherwise
\* the value the main entry returned.  What the unload entry returns and the
\* native unload do not change it.
C18_ReturnedStatus ==
    \A t \in Threads :
        pc[t] = "returned" =>
            ret[t] =
                (IF ~LoaderReturned(t, Success) THEN ResultOf(t, {"load_host_library"})
                 ELSE IF LoadReturnedNonZero(t) THEN ResultOf(t, {"corehost_load"})
                 ELSE ResultOf(t, MainOps))

C18_Witness ==
    \E t \in Threads :
        /\ pc[t] = "returned"
        /\ \E i \in At(t, {"corehost_unload"}) : hist[t][i].r = 7
        /\ \E i \in At(t, MainOps) : hist[t][i].r = 3
        /\ At(t, {"pal::unload_library"}) # {}
        /\ ret[t] = 3

====
